---- MODULE Spec2Model ----
(***************************************************************************)
(* Model of the two controllers of custom_components/tahoma:               *)
(*   - DomesticHotWaterProduction (water_heater_devices)                   *)
(*   - AtlanticHeatRecoveryVentilation (climate_devices)                   *)
(*                                                                         *)
(* Python values are encoded as follows.  A string is a TLA+ string, the   *)
(* value None is the string None below.  A dict with fixed keys is a       *)
(* record whose field holds None when the key is missing (dict.get).  A    *)
(* dict used as a lookup table is the sequence of its items, in insertion  *)
(* order.  A property either returns a value or raises:                    *)
(* [returns |-> v] or [raises |-> e].  A command handed to                 *)
(* async_execute_command is [cmd |-> name, args |-> <<parameters>>], a     *)
(* string parameter s being [str |-> s], a number n [num |-> n] and a dict *)
(* the record itself.                                                      *)
(***************************************************************************)
EXTENDS Integers, Sequences, FiniteSets, TLC

\* ------------------------------------------------------------------ bounds
\* target temperatures a caller may ask for: 1..MaxTemperature
MaxTemperature == 2

\* ------------------------------------------------------- Python encodings
None == "None"

Return(v) == [returns |-> v]
Raise(e) == [raises |-> e]
KeyError == "KeyError"

Str(s) == [str |-> s]
Num(n) == [num |-> n]
Command(name, args) == [cmd |-> name, args |-> args]

\* dict as the sequence of its <<key, value>> items
Keys(d) == {d[i][1] : i \in DOMAIN d}
HasKey(d, k) == \E i \in DOMAIN d : d[i][1] = k
\* d[k]: the value, or KeyError
GetItem(d, k) ==
    IF HasKey(d, k)
    THEN Return(d[CHOOSE i \in DOMAIN d : d[i][1] = k][2])
    ELSE Raise(KeyError)
\* d[k] = v: an existing key keeps its place and takes the new value
SetItem(d, k, v) ==
    IF HasKey(d, k)
    THEN [i \in DOMAIN d |-> IF d[i][1] = k THEN <<k, v>> ELSE d[i]]
    ELSE Append(d, <<k, v>>)

RECURSIVE InvertFrom(_, _, _)
InvertFrom(d, i, acc) ==
    IF i > Len(d) THEN acc
    ELSE InvertFrom(d, i + 1, SetItem(acc, d[i][2], d[i][1]))
\* {v: k for k, v in d.items()}
InvertDict(d) == InvertFrom(d, 1, <<>>)

\* ------------------------------------------- homeassistant constants used
STATE_ON == "on"
STATE_OFF == "off"
STATE_ECO == "eco"
STATE_HIGH_DEMAND == "high_demand"
ATTR_TEMPERATURE == "temperature"
FAN_AUTO == "auto"

\* =========================================================== hot water ===
STATE_MANUAL == "manual"
STATE_AUTO == "auto"
STATE_ABSENCE == "absence"
STATE_RELAUNCH == "relaunch"

COMMAND_SET_TARGET_TEMPERATURE == "setTargetTemperature"
COMMAND_SET_DHW_MODE == "setDHWMode"
COMMAND_SET_CURRENT_OPERATING_MODE == "setCurrentOperatingMode"
COMMAND_SET_BOOST_MODE_DURATION == "setBoostModeDuration"
COMMAND_SET_AWAY_MODE_DURATION == "setAwayModeDuration"

MODE_AUTO == "autoMode"
MODE_BOOST == "boost"
MODE_MANUAL_ECO_ACTIVE == "manualEcoActive"
MODE_MANUAL_ECO_INACTIVE == "manualEcoInactive"

\* the table with the Eco value pasted on the autoMode line
TAHOMA_TO_OPERATION_MODE_eco_twice ==
    << <<MODE_MANUAL_ECO_ACTIVE, STATE_ECO>>,
       <<MODE_MANUAL_ECO_INACTIVE, STATE_MANUAL>>,
       <<MODE_AUTO, STATE_ECO>>,
       <<MODE_BOOST, STATE_HIGH_DEMAND>> >>

TAHOMA_TO_OPERATION_MODE ==
    << <<MODE_MANUAL_ECO_ACTIVE, STATE_ECO>>,
       <<MODE_MANUAL_ECO_INACTIVE, STATE_MANUAL>>,
       <<MODE_AUTO, STATE_AUTO>>,
       <<MODE_BOOST, STATE_HIGH_DEMAND>> >>

OPERATION_MODE_TO_TAHOMA == InvertDict(TAHOMA_TO_OPERATION_MODE)

\* the dict {relaunch: r, absence: a} sent with setCurrentOperatingMode
OperatingMode(r, a) == [relaunch |-> r, absence |-> a]

\* ------------------------------------------------------ Device State Store
IO_DHW_MODE_STATE == "io:DHWModeState"
IO_DHW_BOOST_MODE_STATE == "io:DHWBoostModeState"
IO_AIR_DEMAND_MODE_STATE == "io:AirDemandModeState"
IO_VENTILATION_MODE_STATE == "io:VentilationModeState"
IO_VENTILATION_CONFIGURATION_MODE_STATE == "io:VentilationConfigurationModeState"

\* a raw value the device may report that no table of the controllers holds
Unmapped == "unmapped"

DHWModeValues == Keys(TAHOMA_TO_OPERATION_MODE) \cup {None, Unmapped}
FlagValues == {STATE_ON, STATE_OFF, None}
AirDemandValues == {"auto", "away", "boost", "high", None, Unmapped}
VentilationModeValues == [cooling : FlagValues, prog : FlagValues]
VentilationConfigurationValues == {"comfort", "standard", None, Unmapped}

\* the values each channel may hold
ChannelValues(channel) ==
    CASE channel = IO_DHW_MODE_STATE -> DHWModeValues
      [] channel = IO_DHW_BOOST_MODE_STATE -> FlagValues
      [] channel = IO_AIR_DEMAND_MODE_STATE -> AirDemandValues
      [] channel = IO_VENTILATION_MODE_STATE -> VentilationModeValues
      [] channel = IO_VENTILATION_CONFIGURATION_MODE_STATE -> VentilationConfigurationValues

\* Each controller wraps one device and reads that device's channels.
HotWaterChannels == {IO_DHW_MODE_STATE, IO_DHW_BOOST_MODE_STATE}
VentilationChannels ==
    {IO_AIR_DEMAND_MODE_STATE, IO_VENTILATION_MODE_STATE,
     IO_VENTILATION_CONFIGURATION_MODE_STATE}

\* every raw state of a device: channel name -> last value received
HotWaterStores ==
    {[ch \in HotWaterChannels |-> IF ch = IO_DHW_MODE_STATE THEN m ELSE b] :
        m \in DHWModeValues, b \in FlagValues}

VentilationStores ==
    {[ch \in VentilationChannels |->
         CASE ch = IO_AIR_DEMAND_MODE_STATE -> a
           [] ch = IO_VENTILATION_MODE_STATE -> v
           [] OTHER -> c] :
        a \in AirDemandValues, v \in VentilationModeValues,
        c \in VentilationConfigurationValues}

Stores == HotWaterStores \cup VentilationStores

select_state(st, channel) == st[channel]

\* ---------------------------------------------------- run of one handler
\* The calls of async_execute_command a handler makes when every submission
\* is accepted, each with the store as it is at that call, and the exception
\* the handler ends with (None when it returns).
Run(steps, exc) == [steps |-> steps, raises |-> exc]
Step(command, st) == [cmd |-> command, store |-> st]
Steps(commands, st) == [i \in DOMAIN commands |-> Step(commands[i], st)]
Raises(r) == "raises" \in DOMAIN r

\* ----------------------------------------------- DomesticHotWaterProduction
\* current_operation without the boost override
current_operation_ignoring_boost(st) ==
    GetItem(TAHOMA_TO_OPERATION_MODE, select_state(st, IO_DHW_MODE_STATE))

current_operation(st) ==
    IF select_state(st, IO_DHW_BOOST_MODE_STATE) = STATE_ON
    THEN Return(STATE_HIGH_DEMAND)
    ELSE GetItem(TAHOMA_TO_OPERATION_MODE, select_state(st, IO_DHW_MODE_STATE))

operation_list == Keys(OPERATION_MODE_TO_TAHOMA)

\* kwargs is the set of <<keyword, value>> pairs of the call
kwargs_get(kwargs, key) ==
    IF \E p \in kwargs : p[1] = key
    THEN Num((CHOOSE p \in kwargs : p[1] = key)[2])
    ELSE Str(None)

async_set_temperature(st, kwargs) ==
    LET target_temperature == kwargs_get(kwargs, ATTR_TEMPERATURE)
    IN  Run(Steps(<<Command(COMMAND_SET_TARGET_TEMPERATURE, <<target_temperature>>)>>, st),
            None)

\* async_set_operation_mode without the command that leaves boost
async_set_operation_mode_no_clear(st, operation_mode) ==
    LET cur == current_operation(st)
        raw == GetItem(OPERATION_MODE_TO_TAHOMA, operation_mode)
    IN  IF Raises(cur) THEN Run(<<>>, cur.raises)
        ELSE IF operation_mode = STATE_HIGH_DEMAND
        THEN Run(Steps(<<Command(COMMAND_SET_CURRENT_OPERATING_MODE,
                                 <<OperatingMode(STATE_ON, STATE_OFF)>>),
                         Command(COMMAND_SET_BOOST_MODE_DURATION, <<Num(1)>>)>>, st),
                 None)
        ELSE IF Raises(raw) THEN Run(<<>>, raw.raises)
        ELSE Run(Steps(<<Command(COMMAND_SET_DHW_MODE, <<Str(raw.returns)>>)>>, st), None)

\* async_set_operation_mode with `else:` lost: the DHW-mode command is sent
\* for every target, high demand included
async_set_operation_mode_no_else(st, operation_mode) ==
    LET cur == current_operation(st)
        clear ==
            IF cur = Return(STATE_HIGH_DEMAND) /\ operation_mode # STATE_HIGH_DEMAND
            THEN <<Command(COMMAND_SET_CURRENT_OPERATING_MODE,
                           <<OperatingMode(STATE_OFF, STATE_OFF)>>)>>
            ELSE <<>>
        boost ==
            IF operation_mode = STATE_HIGH_DEMAND
            THEN <<Command(COMMAND_SET_CURRENT_OPERATING_MODE,
                           <<OperatingMode(STATE_ON, STATE_OFF)>>),
                   Command(COMMAND_SET_BOOST_MODE_DURATION, <<Num(1)>>)>>
            ELSE <<>>
        raw == GetItem(OPERATION_MODE_TO_TAHOMA, operation_mode)
    IN  IF Raises(cur) THEN Run(<<>>, cur.raises)
        ELSE IF Raises(raw) THEN Run(Steps(clear \o boost, st), raw.raises)
        ELSE Run(Steps(clear \o boost
                       \o <<Command(COMMAND_SET_DHW_MODE, <<Str(raw.returns)>>)>>, st),
                 None)

async_set_operation_mode(st, operation_mode) ==
    LET cur == current_operation(st)
        clear ==
            IF cur = Return(STATE_HIGH_DEMAND) /\ operation_mode # STATE_HIGH_DEMAND
            THEN <<Command(COMMAND_SET_CURRENT_OPERATING_MODE,
                           <<OperatingMode(STATE_OFF, STATE_OFF)>>)>>
            ELSE <<>>
        raw == GetItem(OPERATION_MODE_TO_TAHOMA, operation_mode)
    IN  IF Raises(cur) THEN Run(<<>>, cur.raises)
        ELSE IF operation_mode = STATE_HIGH_DEMAND
        THEN Run(Steps(clear \o
                       <<Command(COMMAND_SET_CURRENT_OPERATING_MODE,
                                 <<OperatingMode(STATE_ON, STATE_OFF)>>),
                         Command(COMMAND_SET_BOOST_MODE_DURATION, <<Num(1)>>)>>, st),
                 None)
        ELSE IF Raises(raw) THEN Run(Steps(clear, st), raw.raises)
        ELSE Run(Steps(clear \o <<Command(COMMAND_SET_DHW_MODE, <<Str(raw.returns)>>)>>, st),
                 None)

\* async_turn_away_mode_on that sets the duration before the operating mode
async_turn_away_mode_on_duration_first(st) ==
    Run(Steps(<<Command(COMMAND_SET_AWAY_MODE_DURATION, <<Num(2)>>),
                Command(COMMAND_SET_CURRENT_OPERATING_MODE,
                        <<OperatingMode(STATE_OFF, STATE_ON)>>)>>, st),
        None)

async_turn_away_mode_on(st) ==
    Run(Steps(<<Command(COMMAND_SET_CURRENT_OPERATING_MODE,
                        <<OperatingMode(STATE_OFF, STATE_ON)>>),
                Command(COMMAND_SET_AWAY_MODE_DURATION, <<Num(2)>>)>>, st),
        None)

async_turn_away_mode_off(st) ==
    Run(Steps(<<Command(COMMAND_SET_CURRENT_OPERATING_MODE,
                        <<OperatingMode(STATE_OFF, STATE_OFF)>>),
                Command(COMMAND_SET_AWAY_MODE_DURATION, <<Num(0)>>)>>, st),
        None)

\* ========================================================= ventilation ===
FAN_BOOST == "home_boost"
FAN_KITCHEN == "kitchen_boost"
FAN_AWAY == "away"
FAN_BYPASS == "bypass_boost"

PRESET_AUTO == "auto"
PRESET_PROG == "prog"
PRESET_MANUAL == "manual"

COMMAND_SET_AIR_DEMAND_MODE == "setAirDemandMode"
COMMAND_SET_VENTILATION_CONFIGURATION_MODE == "setVentilationConfigurationMode"
COMMAND_SET_VENTILATION_MODE == "setVentilationMode"
COMMAND_REFRESH_VENTILATION_STATE == "refreshVentilationState"
COMMAND_REFRESH_VENTILATION_CONFIGURATION_MODE == "refreshVentilationConfigurationMode"

TAHOMA_TO_FAN_MODES ==
    << <<"auto", FAN_AUTO>>,
       <<"away", FAN_BOOST>>,
       <<"boost", FAN_KITCHEN>>,
       <<"high", FAN_AWAY>>,
       <<None, FAN_BYPASS>> >>

FAN_MODES_TO_TAHOMA == InvertDict(TAHOMA_TO_FAN_MODES)

PRESET_MODES == {PRESET_AUTO, PRESET_PROG, PRESET_MANUAL}

\* the truth value Python gives a string or None in `if x:`
Truthy(x) == x # None /\ x # ""

\* preset_mode that looks at the configuration mode before the prog flag
preset_mode_configuration_first(st) ==
    LET state_ventilation_configuration ==
            select_state(st, IO_VENTILATION_CONFIGURATION_MODE_STATE)
        state_ventilation_mode == select_state(st, IO_VENTILATION_MODE_STATE)
        state_prog == state_ventilation_mode.prog
    IN  IF state_ventilation_configuration = "comfort" THEN Return(PRESET_AUTO)
        ELSE IF state_ventilation_configuration = "standard" THEN Return(PRESET_MANUAL)
        ELSE IF state_prog = "on" THEN Return(PRESET_PROG)
        ELSE Return(None)

preset_mode(st) ==
    LET state_ventilation_configuration ==
            select_state(st, IO_VENTILATION_CONFIGURATION_MODE_STATE)
        state_ventilation_mode == select_state(st, IO_VENTILATION_MODE_STATE)
        state_prog == state_ventilation_mode.prog
    IN  IF state_prog = "on" THEN Return(PRESET_PROG)
        ELSE IF state_ventilation_configuration = "comfort" THEN Return(PRESET_AUTO)
        ELSE IF state_ventilation_configuration = "standard" THEN Return(PRESET_MANUAL)
        ELSE Return(None)

fan_mode(st) ==
    LET ventilation_mode_state == select_state(st, IO_VENTILATION_MODE_STATE)
        cooling == ventilation_mode_state.cooling
    IN  IF cooling = "on" THEN Return(FAN_BYPASS)
        ELSE GetItem(TAHOMA_TO_FAN_MODES, select_state(st, IO_AIR_DEMAND_MODE_STATE))

fan_modes == Keys(FAN_MODES_TO_TAHOMA)

\* the two refresh commands that end set_fan_mode and set_preset_mode
RefreshCommands ==
    <<Command(COMMAND_REFRESH_VENTILATION_STATE, <<>>),
      Command(COMMAND_REFRESH_VENTILATION_CONFIGURATION_MODE, <<>>)>>

\* async_set_fan_mode that sends the set command and no refresh
async_set_fan_mode_no_refresh(st, mode) ==
    LET raw == GetItem(FAN_MODES_TO_TAHOMA, mode)
    IN  IF mode = FAN_BYPASS
        THEN Run(Steps(<<Command(COMMAND_SET_AIR_DEMAND_MODE, <<Str("auto")>>)>>, st), None)
        ELSE IF Raises(raw) THEN Run(<<>>, raw.raises)
        ELSE Run(Steps(<<Command(COMMAND_SET_AIR_DEMAND_MODE, <<Str(raw.returns)>>)>>, st),
                 None)

\* async_set_fan_mode with the reverse table used for every mode
async_set_fan_mode_table_only(st, mode) ==
    LET raw == GetItem(FAN_MODES_TO_TAHOMA, mode)
    IN  IF Raises(raw) THEN Run(<<>>, raw.raises)
        ELSE Run(Steps(<<Command(COMMAND_SET_AIR_DEMAND_MODE, <<Str(raw.returns)>>)>>
                       \o RefreshCommands, st), None)

async_set_fan_mode(st, mode) ==
    LET raw == GetItem(FAN_MODES_TO_TAHOMA, mode)
    IN  IF mode = FAN_BYPASS
        THEN Run(Steps(<<Command(COMMAND_SET_AIR_DEMAND_MODE, <<Str("auto")>>)>>
                       \o RefreshCommands, st), None)
        ELSE IF Raises(raw) THEN Run(<<>>, raw.raises)
        ELSE Run(Steps(<<Command(COMMAND_SET_AIR_DEMAND_MODE, <<Str(raw.returns)>>)>>
                       \o RefreshCommands, st), None)

\* The record select_state returns is the one the store holds: the handler
\* writes the fields into it and hands that same record to the command.
_set_ventilation_mode(st, cooling, prog) ==
    LET ventilation_mode_state == select_state(st, IO_VENTILATION_MODE_STATE)
        withCooling ==
            IF Truthy(cooling)
            THEN [ventilation_mode_state EXCEPT !.cooling = cooling]
            ELSE ventilation_mode_state
        withProg ==
            IF Truthy(prog) THEN [withCooling EXCEPT !.prog = prog] ELSE withCooling
    IN  Step(Command(COMMAND_SET_VENTILATION_MODE, <<withProg>>),
             [st EXCEPT ![IO_VENTILATION_MODE_STATE] = withProg])

\* a block that sends the prog flag before the configuration mode
PresetBlock_prog_first(st, taken, configuration, prog) ==
    IF taken
    THEN LET first == _set_ventilation_mode(st, None, prog)
         IN  <<first,
               Step(Command(COMMAND_SET_VENTILATION_CONFIGURATION_MODE,
                            <<Str(configuration)>>), first.store)>>
    ELSE <<>>

\* one `if preset_mode == X:` block of async_set_preset_mode
PresetBlock(st, taken, configuration, prog) ==
    IF taken
    THEN <<Step(Command(COMMAND_SET_VENTILATION_CONFIGURATION_MODE, <<Str(configuration)>>), st),
           _set_ventilation_mode(st, None, prog)>>
    ELSE <<>>

\* the store after the steps, st when there are none
StoreAfter(steps, st) == IF steps = <<>> THEN st ELSE steps[Len(steps)].store

\* async_set_preset_mode with the two refresh commands sent first
async_set_preset_mode_refresh_first(st, mode) ==
    LET b1 == PresetBlock(st, mode = PRESET_AUTO, "comfort", "off")
        s1 == StoreAfter(b1, st)
        b2 == PresetBlock(s1, mode = PRESET_PROG, "standard", "on")
        s2 == StoreAfter(b2, s1)
        b3 == PresetBlock(s2, mode = PRESET_MANUAL, "standard", "off")
    IN  Run(Steps(RefreshCommands, st) \o b1 \o b2 \o b3, None)

async_set_preset_mode(st, mode) ==
    LET b1 == PresetBlock(st, mode = PRESET_AUTO, "comfort", "off")
        s1 == StoreAfter(b1, st)
        b2 == PresetBlock(s1, mode = PRESET_PROG, "standard", "on")
        s2 == StoreAfter(b2, s1)
        b3 == PresetBlock(s2, mode = PRESET_MANUAL, "standard", "off")
        s3 == StoreAfter(b3, s2)
    IN  Run(b1 \o b2 \o b3 \o Steps(RefreshCommands, s3), None)

\* ==================================================== temperature sensor ===
\* Texts are sequences of characters, so that float() can be computed.
MaxTextLen == 2
Digits == {"2"}
Chars == Digits \cup {".", "-"}
STATE_UNKNOWN == <<"u", "n", "k", "n", "o", "w", "n">>
ValueError == "ValueError"

\* None where the other values are records
NoneObj == [none |-> TRUE]
\* a State object of the state machine, by its state text
State(text) == [state |-> text]
\* a float, by its decimal digits and the number of them after the point
Float(mant, frac) == [mant |-> mant, frac |-> frac]

IsDigit(c) == c \in Digits
DigitValue(c) == CASE c = "2" -> 2

RECURSIVE DigitsToInt(_)
DigitsToInt(ds) ==
    IF ds = <<>> THEN 0
    ELSE 10 * DigitsToInt(SubSeq(ds, 1, Len(ds) - 1)) + DigitValue(ds[Len(ds)])

\* float(text): an optional sign, then digits with at most one point and at
\* least one digit; anything else is a ValueError.
float(text) ==
    LET negative == text # <<>> /\ text[1] = "-"
        body == IF negative THEN Tail(text) ELSE text
        points == {i \in DOMAIN body : body[i] = "."}
        ds == SelectSeq(body, IsDigit)
        wellFormed ==
            /\ \A i \in DOMAIN body : IsDigit(body[i]) \/ body[i] = "."
            /\ Cardinality(points) <= 1
            /\ ds # <<>>
        frac == IF points = {} THEN 0 ELSE Len(body) - (CHOOSE i \in points : TRUE)
        mant == DigitsToInt(ds)
    IN  IF wellFormed
        THEN Return(Float(IF negative THEN 0 - mant ELSE mant, frac))
        ELSE Raise(ValueError)

\* update_temp: the cached temperature after the call, given the one before
update_temp_unknown_clears(temperature, state) ==
    IF state = NoneObj \/ state.state = STATE_UNKNOWN THEN NoneObj
    ELSE LET parsed == float(state.state)
         IN  IF Raises(parsed) THEN temperature ELSE parsed.returns

update_temp(temperature, state) ==
    IF state = NoneObj \/ state.state = STATE_UNKNOWN THEN temperature
    ELSE LET parsed == float(state.state)
         IN  IF Raises(parsed) THEN temperature ELSE parsed.returns

\* _async_temp_sensor_changed: the cached temperature after the callback and
\* the number of calls it makes of schedule_update_ha_state
_async_temp_sensor_changed_always_schedules(temperature, old_state, new_state) ==
    IF new_state = NoneObj \/ old_state = new_state
    THEN [temperature |-> temperature, scheduled |-> 1]
    ELSE [temperature |-> update_temp(temperature, new_state), scheduled |-> 1]

_async_temp_sensor_changed(temperature, old_state, new_state) ==
    IF new_state = NoneObj \/ old_state = new_state
    THEN [temperature |-> temperature, scheduled |-> 0]
    ELSE [temperature |-> update_temp(temperature, new_state), scheduled |-> 1]

\* _async_startup: the cached temperature after the system-ready callback
_async_startup(temperature, entity_id, temp_sensor_state) ==
    IF Truthy(entity_id)
    THEN IF temp_sensor_state # NoneObj /\ temp_sensor_state.state # STATE_UNKNOWN
         THEN update_temp(temperature, temp_sensor_state)
         ELSE temperature
    ELSE temperature

\* The entity registry is a dict of entity id to entry, in insertion order;
\* a unique id is the device's base url followed by a suffix.
BaseUrl == "io://1234-5678-9012/3456789"
OtherUrl == "io://1234-5678-9012/9999999"
UniqueId(base_url, suffix) == <<base_url, suffix>>

\* next((entity_id for ... if entry.unique_id == f"{base_url}#4"), None)
RECURSIVE FirstMatch(_, _, _)
FirstMatch(entities, unique_id, i) ==
    IF i > Len(entities) THEN None
    ELSE IF entities[i][2] = unique_id THEN entities[i][1]
    ELSE FirstMatch(entities, unique_id, i + 1)

\* async_added_to_hass: the entity id it keeps and whether it subscribes
async_added_to_hass_always_tracks(entities) ==
    LET entity_id == FirstMatch(entities, UniqueId(BaseUrl, "#4"), 1)
    IN  [entity_id |-> entity_id, tracked |-> TRUE]

async_added_to_hass(entities) ==
    LET entity_id == FirstMatch(entities, UniqueId(BaseUrl, "#4"), 1)
    IN  [entity_id |-> entity_id, tracked |-> Truthy(entity_id)]

\* ======================================================= state machine ===
VARIABLES
    store,      \* Device State Store: the raw device state
    call,       \* the last handler invoked since the last refresh: [op, arg]
    before,     \* the store when that handler started
    submitted,  \* the commands it handed to async_execute_command, in order
    failed,     \* the index in submitted of the submission that failed, or 0
    result,     \* how it ended: Ok, KeyError or ExecutionFailed
    value,      \* what it returned (None for a handler, which returns nothing)
    applied,    \* the device applied the commands and reported the outcome
    _temp_sensor_entity_id,  \* the bound sensor's entity id, or None
    _current_temperature,    \* the cached temperature: a Float or NoneObj
    prior_temperature,       \* the cached temperature when the last step began
    hass,       \* the host: the sensor's state, the subscription, the listener
    lookups,    \* how many times the entity registry was searched
    scheduled,  \* schedule_update_ha_state calls made by the last step
    tasks       \* concurrent set_preset_mode invocations: [target, pc]

vars == <<store, call, before, submitted, failed, result, value, applied,
          _temp_sensor_entity_id, _current_temperature, prior_temperature,
          hass, lookups, scheduled, tasks>>

NoCall == [op |-> None, arg |-> None]
Ok == "ok"
\* async_execute_command raised: the submission was not accepted
ExecutionFailed == "ExecutionFailed"

\* the controller is the one of the device whose channels the store holds
IsHotWater == DOMAIN store = HotWaterChannels
IsVentilation == DOMAIN store = VentilationChannels

\* what callers may pass
Unsupported == "unsupported"
OperationModeInputs == operation_list \cup {Unsupported}
FanModeInputs == fan_modes \cup {Unsupported}
PresetModeInputs == PRESET_MODES \cup {Unsupported}
KwargsInputs == {{}} \cup {{<<ATTR_TEMPERATURE, t>>} : t \in 1..MaxTemperature}

\* the controller as __init__ leaves it, in a host that has not started
Constructed ==
    /\ call = NoCall
    /\ before = store
    /\ submitted = <<>>
    /\ failed = 0
    /\ result = None
    /\ value = None
    /\ applied = FALSE
    /\ _temp_sensor_entity_id = None
    /\ _current_temperature = NoneObj
    /\ prior_temperature = NoneObj
    /\ lookups = 0
    /\ scheduled = 0

NoHass == [states |-> NoneObj, tracked |-> FALSE, listeners |-> 0, is_running |-> FALSE]

Init ==
    /\ store \in Stores
    /\ Constructed
    /\ hass = NoHass
    /\ tasks = <<>>

\* a step that is none of the sensor's callbacks: the cached temperature, the
\* binding and the host stay as they are
SensorIdle ==
    /\ prior_temperature' = _current_temperature
    /\ scheduled' = 0
    /\ UNCHANGED <<_temp_sensor_entity_id, _current_temperature, hass, lookups>>

NoSensorStep == SensorIdle /\ UNCHANGED tasks

\* An invocation that submits a failed command a second time
Invoke_retry(op, arg, run) ==
    \E k \in 0..Len(run.steps) :
        LET made == IF k = 0 THEN run.steps
                    ELSE SubSeq(run.steps, 1, k) \o <<run.steps[k]>>
        IN  /\ call' = [op |-> op, arg |-> arg]
            /\ before' = store
            /\ submitted' = [i \in DOMAIN made |-> made[i].cmd]
            /\ failed' = IF k = 0 THEN 0 ELSE k + 1
            /\ result' = IF k # 0 THEN ExecutionFailed
                         ELSE IF run.raises # None THEN run.raises
                         ELSE Ok
            /\ value' = None
            /\ store' = StoreAfter(made, store)
            /\ applied' = FALSE
            /\ NoSensorStep

\* One invocation of a handler whose run is `run`.  Every submission is
\* accepted (k = 0), or the k-th one fails and ends the handler there.
Invoke(op, arg, run) ==
    \E k \in 0..Len(run.steps) :
        LET made == IF k = 0 THEN run.steps ELSE SubSeq(run.steps, 1, k)
        IN  /\ call' = [op |-> op, arg |-> arg]
            /\ before' = store
            /\ submitted' = [i \in DOMAIN made |-> made[i].cmd]
            /\ failed' = k
            /\ result' = IF k # 0 THEN ExecutionFailed
                         ELSE IF run.raises # None THEN run.raises
                         ELSE Ok
            /\ value' = None
            /\ store' = StoreAfter(made, store)
            /\ applied' = FALSE
            /\ NoSensorStep

\* One read of a property: it returns a value or raises, and changes nothing.
Read(op, r) ==
    /\ call' = [op |-> op, arg |-> None]
    /\ before' = store
    /\ submitted' = <<>>
    /\ failed' = 0
    /\ result' = IF Raises(r) THEN r.raises ELSE Ok
    /\ value' = IF Raises(r) THEN None ELSE r.returns
    /\ store' = store
    /\ applied' = FALSE
    /\ NoSensorStep

CurrentOperation ==
    /\ IsHotWater
    /\ Read("current_operation", current_operation(store))

FanMode ==
    /\ IsVentilation
    /\ Read("fan_mode", fan_mode(store))

PresetMode ==
    /\ IsVentilation
    /\ Read("preset_mode", preset_mode(store))

SetTemperature ==
    /\ IsHotWater
    /\ \E kwargs \in KwargsInputs :
        Invoke("set_temperature", kwargs, async_set_temperature(store, kwargs))

SetOperationMode ==
    /\ IsHotWater
    /\ \E m \in OperationModeInputs :
        Invoke("set_operation_mode", m, async_set_operation_mode(store, m))

TurnAwayModeOn ==
    /\ IsHotWater
    /\ Invoke("turn_away_mode_on", None, async_turn_away_mode_on(store))

TurnAwayModeOff ==
    /\ IsHotWater
    /\ Invoke("turn_away_mode_off", None, async_turn_away_mode_off(store))

SetFanModeOf(modes) ==
    /\ IsVentilation
    /\ \E m \in modes : Invoke("set_fan_mode", m, async_set_fan_mode(store, m))

SetFanMode == SetFanModeOf(FanModeInputs)

SetPresetModeOf(modes) ==
    /\ IsVentilation
    /\ \E m \in modes : Invoke("set_preset_mode", m, async_set_preset_mode(store, m))

SetPresetMode == SetPresetModeOf(PresetModeInputs)

\* A state-refresh event: the device reports the value of one channel and
\* the store takes it.
RefreshTo(stores) ==
    /\ \E ch \in DOMAIN store : \E v \in ChannelValues(ch) :
           /\ [store EXCEPT ![ch] = v] \in stores
           /\ store' = [store EXCEPT ![ch] = v]
    /\ call' = NoCall
    /\ before' = store'
    /\ submitted' = <<>>
    /\ failed' = 0
    /\ result' = None
    /\ value' = None
    /\ applied' = FALSE
    /\ NoSensorStep

Refresh == RefreshTo(Stores)

\* what the device holds once it has applied the commands, starting from st
RECURSIVE ApplyCommands(_, _)
ApplyCommands(st, commands) ==
    IF commands = <<>> THEN st
    ELSE LET c == Head(commands)
             next ==
                 IF c.cmd = COMMAND_SET_VENTILATION_CONFIGURATION_MODE
                 THEN [st EXCEPT ![IO_VENTILATION_CONFIGURATION_MODE_STATE] = c.args[1].str]
                 ELSE IF c.cmd = COMMAND_SET_VENTILATION_MODE
                 THEN [st EXCEPT ![IO_VENTILATION_MODE_STATE] = c.args[1]]
                 ELSE st
         IN  ApplyCommands(next, Tail(commands))

\* the commands of the last invocation that the executor accepted
Accepted == IF failed = 0 THEN submitted ELSE SubSeq(submitted, 1, failed - 1)

\* The device applies the commands of the last ventilation write and its
\* refresh puts the outcome in the store.
DeviceApplies ==
    /\ IsVentilation
    /\ call.op \in {"set_fan_mode", "set_preset_mode"}
    /\ ~applied
    /\ applied' = TRUE
    /\ store' = ApplyCommands(before, Accepted)
    /\ UNCHANGED <<call, before, submitted, failed, result, value>>
    /\ NoSensorStep

Next ==
    \/ CurrentOperation
    \/ FanMode
    \/ PresetMode
    \/ SetTemperature
    \/ SetOperationMode
    \/ TurnAwayModeOn
    \/ TurnAwayModeOff
    \/ SetFanMode
    \/ SetPresetMode
    \/ Refresh
    \/ DeviceApplies

Spec == Init /\ [][Next]_vars

\* ------------------------------------------- the controller and its sensor
\* The ventilation controller in its host: activation, the system-ready
\* event, the sensor's state changes, and the controller's own operations.
RECURSIVE SeqsUpTo(_, _)
SeqsUpTo(S, n) ==
    IF n = 0 THEN {<<>>}
    ELSE LET shorter == SeqsUpTo(S, n - 1)
         IN  shorter \cup {Append(t, c) : t \in shorter, c \in S}

Texts == SeqsUpTo(Chars, MaxTextLen) \cup {STATE_UNKNOWN}
SensorStates == {State(t) : t \in Texts}

EntityIds == {"sensor.outside", "sensor.exhaust"}
UniqueIds == {UniqueId(BaseUrl, "#4"), UniqueId(BaseUrl, "#1"), UniqueId(OtherUrl, "#4")}
\* registries of at most two entities, each entity id once
Registries ==
    LET Entries == EntityIds \X UniqueIds
    IN  {<<>>}
        \cup {<<a>> : a \in Entries}
        \cup {<<p[1], p[2]>> : p \in {q \in Entries \X Entries : q[1][1] # q[2][1]}}

\* the raw state of a device in the Prog preset
SensorStores ==
    {st \in VentilationStores :
        /\ st[IO_AIR_DEMAND_MODE_STATE] = "auto"
        /\ st[IO_VENTILATION_CONFIGURATION_MODE_STATE] = "comfort"
        /\ st[IO_VENTILATION_MODE_STATE].cooling = STATE_OFF
        /\ st[IO_VENTILATION_MODE_STATE].prog = STATE_ON}

SensorInit ==
    /\ store \in SensorStores
    /\ Constructed
    /\ hass \in [states : SensorStates \cup {NoneObj}, tracked : {FALSE},
                  listeners : {0}, is_running : {FALSE}]
    /\ tasks = <<>>

\* a step of the host or of a callback: no command, the store as it is
NoCommandStep(op, arg) ==
    /\ call' = [op |-> op, arg |-> arg]
    /\ before' = store
    /\ submitted' = <<>>
    /\ failed' = 0
    /\ result' = Ok
    /\ value' = None
    /\ applied' = FALSE
    /\ prior_temperature' = _current_temperature
    /\ UNCHANGED <<store, tasks>>

\* The host adds the entity, once: async_added_to_hass.
AddedToHass ==
    /\ IsVentilation
    /\ lookups = 0
    /\ \E entities \in Registries :
        LET r == async_added_to_hass(entities)
        IN  /\ _temp_sensor_entity_id' = r.entity_id
            /\ hass' = [hass EXCEPT !.tracked = r.tracked, !.listeners = 1]
            /\ NoCommandStep("async_added_to_hass", entities)
    /\ lookups' = lookups + 1
    /\ scheduled' = 1
    /\ UNCHANGED _current_temperature

\* EVENT_HOMEASSISTANT_START: it fires once, and runs _async_startup if the
\* listener is there by then.
HomeAssistantStart ==
    /\ ~hass.is_running
    /\ hass' = [hass EXCEPT !.is_running = TRUE, !.listeners = 0]
    /\ IF hass.listeners = 1
       THEN /\ _current_temperature' =
                   _async_startup(_current_temperature, _temp_sensor_entity_id, hass.states)
            /\ NoCommandStep("_async_startup", [same |-> FALSE])
       ELSE /\ UNCHANGED _current_temperature
            /\ NoCommandStep("homeassistant_start", None)
    /\ scheduled' = 0
    /\ UNCHANGED <<_temp_sensor_entity_id, lookups>>

\* The sensor's state changes, or is removed; a subscribed controller is
\* notified with the old and the new state.  The new state is then the one
\* the host holds, and call.arg keeps whether the old one was equal to it.
SensorStateChanged ==
    /\ \E new_state \in SensorStates \cup {NoneObj} :
        /\ hass' = [hass EXCEPT !.states = new_state]
        /\ IF hass.tracked
           THEN LET r == _async_temp_sensor_changed(_current_temperature,
                                                    hass.states, new_state)
                IN  /\ _current_temperature' = r.temperature
                    /\ scheduled' = r.scheduled
                    /\ NoCommandStep("_async_temp_sensor_changed",
                                     [same |-> hass.states = new_state])
           ELSE /\ UNCHANGED _current_temperature
                /\ scheduled' = 0
                /\ NoCommandStep("state_changed", None)
    /\ UNCHANGED <<_temp_sensor_entity_id, lookups>>

CurrentTemperature ==
    /\ IsVentilation
    /\ call' = [op |-> "current_temperature", arg |-> None]
    /\ before' = store
    /\ submitted' = <<>>
    /\ failed' = 0
    /\ result' = Ok
    /\ value' = _current_temperature
    /\ applied' = FALSE
    /\ store' = store
    /\ NoSensorStep

\* the controller's own operations, one target each
SensorSetFanMode == SetFanModeOf({FAN_AWAY})
SensorSetPresetMode == SetPresetModeOf({PRESET_PROG})
SensorRefresh == RefreshTo(SensorStores)

SensorNext ==
    \/ AddedToHass
    \/ HomeAssistantStart
    \/ SensorStateChanged
    \/ CurrentTemperature
    \/ FanMode
    \/ PresetMode
    \/ SensorSetFanMode
    \/ SensorSetPresetMode
    \/ SensorRefresh

SensorSpec == SensorInit /\ [][SensorNext]_vars

\* --------------------------------- two concurrent set_preset_mode invocations
\* Each invocation runs from one await of async_execute_command to the next;
\* the event loop may switch to the other one at each of them.
ConcStores ==
    {st \in VentilationStores :
        /\ st[IO_AIR_DEMAND_MODE_STATE] = "auto"
        /\ st[IO_VENTILATION_CONFIGURATION_MODE_STATE] \in {"comfort", "standard"}
        /\ st[IO_VENTILATION_MODE_STATE].cooling = STATE_OFF
        /\ st[IO_VENTILATION_MODE_STATE].prog \in {STATE_ON, STATE_OFF}}

Task(target) == [target |-> target, pc |-> 1]
Done(task) == task.pc > Len(async_set_preset_mode(store, task.target).steps)

ConcInit ==
    /\ store \in ConcStores
    /\ Constructed
    /\ hass = NoHass
    /\ \E a \in PRESET_MODES : \E b \in PRESET_MODES \ {a} : tasks = <<Task(a), Task(b)>>

\* invocation i runs up to its next await: it submits its next command
TaskStep(i) ==
    /\ ~Done(tasks[i])
    /\ LET s == async_set_preset_mode(store, tasks[i].target).steps[tasks[i].pc]
       IN  /\ submitted' = Append(submitted, s.cmd)
           /\ store' = s.store
    /\ tasks' = [tasks EXCEPT ![i].pc = @ + 1]
    /\ call' = [op |-> "set_preset_mode", arg |-> tasks[i].target]
    /\ UNCHANGED <<before, failed, result, value, applied>>
    /\ SensorIdle

\* both invocations are over: the device applies every command in the order
\* of submission and its refresh puts the outcome in the store
ConcApplied ==
    /\ \A i \in DOMAIN tasks : Done(tasks[i])
    /\ ~applied
    /\ applied' = TRUE
    /\ store' = ApplyCommands(before, submitted)
    /\ UNCHANGED <<call, before, submitted, failed, result, value, tasks>>
    /\ SensorIdle

ConcNext ==
    \/ \E i \in DOMAIN tasks : TaskStep(i)
    \/ ConcApplied

ConcSpec == ConcInit /\ [][ConcNext]_vars

TypeOK ==
    /\ store \in Stores
    /\ before \in Stores
    /\ failed \in 0..Len(submitted)
    /\ result \in {None, Ok, KeyError, ExecutionFailed}
    /\ (result = ExecutionFailed) = (failed # 0)
    /\ failed # 0 => failed = Len(submitted)

\* ========================================================== properties ===
\* the handler `op` ran, called with `arg`, and no submission of it failed
Completed(op, arg) == call.op = op /\ call.arg = arg /\ failed = 0

\* the command that leaves boost, and the one that enters it
BoostClear == Command("setCurrentOperatingMode", <<[relaunch |-> "off", absence |-> "off"]>>)
BoostEnter == Command("setCurrentOperatingMode", <<[relaunch |-> "on", absence |-> "off"]>>)

\* C1: set_operation_mode(m), m one of Eco, Manual, Auto: when
\* current_operation() was HighDemand at the call, the commands submitted are
\* exactly the boost-clear command and then setDHWMode(raw(m)); when it was
\* another mode, exactly setDHWMode(raw(m)).
C1_ClearBoostBeforeDHWMode ==
    \A m \in {"eco", "manual", "auto"} :
        LET raw == CASE m = "eco" -> "manualEcoActive"
                     [] m = "manual" -> "manualEcoInactive"
                     [] m = "auto" -> "autoMode"
            cur == current_operation(before)
        IN  (Completed("set_operation_mode", m) /\ ~Raises(cur)) =>
                /\ result = Ok
                /\ cur.returns = "high_demand" =>
                       submitted = <<BoostClear, Command("setDHWMode", <<Str(raw)>>)>>
                /\ cur.returns # "high_demand" =>
                       submitted = <<Command("setDHWMode", <<Str(raw)>>)>>

\* C1 happens: Manual was asked for while the device was in boost
C1_Witness ==
    /\ Completed("set_operation_mode", "manual")
    /\ current_operation(before) = Return("high_demand")
    /\ Len(submitted) = 2

\* C2: set_operation_mode(HighDemand) from a state that reads Eco, Manual or
\* Auto submits exactly the boost-enter command and then
\* setBoostModeDuration(1); no run of it, failed or not, submits setDHWMode.
C2_EnterBoostWithoutDHWMode ==
    LET cur == current_operation(before)
    IN  /\ (Completed("set_operation_mode", "high_demand") /\ ~Raises(cur)
            /\ cur.returns # "high_demand") =>
                /\ result = Ok
                /\ submitted = <<BoostEnter, Command("setBoostModeDuration", <<Num(1)>>)>>
        /\ (call.op = "set_operation_mode" /\ call.arg = "high_demand") =>
                \A i \in DOMAIN submitted : submitted[i].cmd # "setDHWMode"

\* C2 happens: boost was asked for while the device read Eco
C2_Witness ==
    /\ Completed("set_operation_mode", "high_demand")
    /\ current_operation(before) = Return("eco")
    /\ Len(submitted) = 2

\* C3: current_operation() returns HighDemand whenever io:DHWBoostModeState
\* is "on", whatever io:DHWModeState holds; otherwise it returns the table
\* image of io:DHWModeState, and raises a lookup error when that value is
\* none of the four.
C3_CurrentOperation ==
    call.op = "current_operation" =>
        LET boost == before["io:DHWBoostModeState"]
            mode == before["io:DHWModeState"]
        IN  /\ boost = "on" => result = Ok /\ value = "high_demand"
            /\ boost # "on" =>
                   CASE mode = "manualEcoActive" -> result = Ok /\ value = "eco"
                     [] mode = "manualEcoInactive" -> result = Ok /\ value = "manual"
                     [] mode = "autoMode" -> result = Ok /\ value = "auto"
                     [] mode = "boost" -> result = Ok /\ value = "high_demand"
                     [] OTHER -> result = KeyError

\* C3 happens: the read returned HighDemand for a raw mode outside the table
C3_Witness ==
    /\ call.op = "current_operation"
    /\ before["io:DHWBoostModeState"] = "on"
    /\ before["io:DHWModeState"] = Unmapped
    /\ value = "high_demand"

\* C4: set_preset_mode(p), p a supported preset, submits exactly four
\* commands: setVentilationConfigurationMode (comfort for Auto, standard for
\* Prog and Manual), then setVentilationMode with prog off for Auto and
\* Manual and on for Prog, then refreshVentilationState, then
\* refreshVentilationConfigurationMode.
C4_PresetSequence ==
    \A p \in {"auto", "prog", "manual"} :
        LET configuration == IF p = "auto" THEN "comfort" ELSE "standard"
            prog == IF p = "prog" THEN "on" ELSE "off"
            cooling == before["io:VentilationModeState"].cooling
        IN  Completed("set_preset_mode", p) =>
                /\ result = Ok
                /\ submitted =
                       <<Command("setVentilationConfigurationMode", <<Str(configuration)>>),
                         Command("setVentilationMode",
                                 <<[cooling |-> cooling, prog |-> prog]>>),
                         Command("refreshVentilationState", <<>>),
                         Command("refreshVentilationConfigurationMode", <<>>)>>

\* C4 happens: Auto was asked for from configuration standard with prog on
C4_Witness ==
    /\ Completed("set_preset_mode", "auto")
    /\ before["io:VentilationConfigurationModeState"] = "standard"
    /\ before["io:VentilationModeState"].prog = "on"
    /\ Len(submitted) = 4

\* C5: set_temperature with no temperature in the request submits no command
\* and raises nothing; with a temperature it submits exactly one
\* setTargetTemperature command carrying it.
C5_SetTemperature ==
    /\ Completed("set_temperature", {}) => result = Ok /\ submitted = <<>>
    /\ \A t \in 1..MaxTemperature :
           Completed("set_temperature", {<<"temperature", t>>}) =>
               result = Ok /\ submitted = <<Command("setTargetTemperature", <<Num(t)>>)>>

\* C6: set_preset_mode with a value outside Auto, Prog, Manual ends with an
\* error and submits no command.
C6_UnsupportedPresetRejected ==
    (call.op = "set_preset_mode" /\ call.arg \notin {"auto", "prog", "manual"}) =>
        result # Ok /\ submitted = <<>>

\* C7: set_fan_mode and set_operation_mode called with an unsupported mode
\* end with an error and submit no command, in every raw device state.
C7_UnsupportedModeRejectedFirst ==
    /\ (call.op = "set_fan_mode"
        /\ call.arg \notin {"auto", "home_boost", "kitchen_boost", "away", "bypass_boost"}) =>
           result # Ok /\ submitted = <<>>
    /\ (call.op = "set_operation_mode"
        /\ call.arg \notin {"eco", "manual", "auto", "high_demand"}) =>
           result # Ok /\ submitted = <<>>

\* C8: fan_mode() and preset_mode() never raise; a raw state outside the
\* table (cooling not "on" and an air-demand value other than auto, away,
\* boost, high or absent; prog not "on" and a configuration mode other than
\* comfort and standard) reads as None.
C8_VentilationReadsNeverFail ==
    /\ call.op = "fan_mode" =>
           /\ result = Ok
           /\ (before["io:VentilationModeState"].cooling # "on"
               /\ before["io:AirDemandModeState"] \notin {"auto", "away", "boost", "high", None})
                  => value = None
    /\ call.op = "preset_mode" =>
           /\ result = Ok
           /\ (before["io:VentilationModeState"].prog # "on"
               /\ before["io:VentilationConfigurationModeState"] \notin {"comfort", "standard"})
                  => value = None

\* C9: the hot-water tables are inverse bijections: each of the four raw
\* modes maps to a generic mode that maps back to it, and each of the four
\* generic modes maps to a raw mode that maps back to it.  So a read of a raw
\* mode v (boost flag off) returns a mode whose reverse image is v, and the
\* raw mode a set_operation_mode(g) submits reads back as g.
C9_HotWaterBijection ==
    /\ \A v \in {"manualEcoActive", "manualEcoInactive", "autoMode", "boost"} :
           LET g == GetItem(TAHOMA_TO_OPERATION_MODE, v)
           IN  ~Raises(g) /\ GetItem(OPERATION_MODE_TO_TAHOMA, g.returns) = Return(v)
    /\ \A g \in {"eco", "manual", "auto", "high_demand"} :
           LET v == GetItem(OPERATION_MODE_TO_TAHOMA, g)
           IN  ~Raises(v) /\ GetItem(TAHOMA_TO_OPERATION_MODE, v.returns) = Return(g)
    /\ (call.op = "current_operation" /\ result = Ok
        /\ before["io:DHWBoostModeState"] # "on") =>
           GetItem(OPERATION_MODE_TO_TAHOMA, value) = Return(before["io:DHWModeState"])
    /\ \A g \in {"eco", "manual", "auto"} :
           (Completed("set_operation_mode", g) /\ result = Ok) =>
               LET sent == submitted[Len(submitted)]
               IN  /\ sent.cmd = "setDHWMode"
                   /\ GetItem(TAHOMA_TO_OPERATION_MODE, sent.args[1].str) = Return(g)

\* C9 happens: raw mode autoMode was read with the boost flag off, and the
\* mode read maps back to autoMode
C9_Witness ==
    /\ call.op = "current_operation"
    /\ before["io:DHWBoostModeState"] = "off"
    /\ before["io:DHWModeState"] = "autoMode"
    /\ value = "auto"
    /\ GetItem(OPERATION_MODE_TO_TAHOMA, value) = Return("autoMode")

\* C10: with the cooling flag not "on", set_fan_mode(fan_mode()) submits
\* setAirDemandMode(v) for the raw air-demand values v read as Auto, Kitchen
\* and Away; with the air-demand value absent fan_mode() is Bypass and
\* set_fan_mode(Bypass) submits setAirDemandMode("auto"), not the absent
\* value.
C10_FanModeRoundTrip ==
    LET v == before["io:AirDemandModeState"]
        read == fan_mode(before)
    IN  (call.op = "set_fan_mode" /\ failed = 0
         /\ before["io:VentilationModeState"].cooling # "on"
         /\ read = Return(call.arg)) =>
            /\ v = "auto" => call.arg = "auto" /\ submitted[1] = Command("setAirDemandMode", <<Str("auto")>>)
            /\ v = "boost" => call.arg = "kitchen_boost"
                              /\ submitted[1] = Command("setAirDemandMode", <<Str("boost")>>)
            /\ v = "high" => call.arg = "away"
                             /\ submitted[1] = Command("setAirDemandMode", <<Str("high")>>)
            /\ v = None => call.arg = "bypass_boost"
                           /\ submitted[1] = Command("setAirDemandMode", <<Str("auto")>>)
                           /\ submitted[1] # Command("setAirDemandMode", <<Str(v)>>)

\* C10 happens: the fan mode read from an absent air-demand value was written
\* back
C10_Witness ==
    /\ call.op = "set_fan_mode"
    /\ failed = 0
    /\ before["io:VentilationModeState"].cooling = "off"
    /\ before["io:AirDemandModeState"] = None
    /\ call.arg = "bypass_boost"
    /\ Len(submitted) = 3

\* C11: set_fan_mode(m), m a supported fan mode, submits exactly three
\* commands: setAirDemandMode with the vendor value of m ("auto" for Bypass),
\* then refreshVentilationState, then refreshVentilationConfigurationMode.
C11_FanModeSequence ==
    \A m \in {"auto", "home_boost", "kitchen_boost", "away", "bypass_boost"} :
        LET raw == CASE m = "auto" -> "auto"
                     [] m = "home_boost" -> "away"
                     [] m = "kitchen_boost" -> "boost"
                     [] m = "away" -> "high"
                     [] m = "bypass_boost" -> "auto"
        IN  Completed("set_fan_mode", m) =>
                /\ result = Ok
                /\ submitted = <<Command("setAirDemandMode", <<Str(raw)>>),
                                 Command("refreshVentilationState", <<>>),
                                 Command("refreshVentilationConfigurationMode", <<>>)>>

\* C11 happens: the fan mode Away was set
C11_Witness ==
    /\ Completed("set_fan_mode", "away")
    /\ submitted[1] = Command("setAirDemandMode", <<Str("high")>>)
    /\ Len(submitted) = 3

\* C12: turn_away_mode_on submits exactly setCurrentOperatingMode({relaunch:
\* off, absence: on}) and then setAwayModeDuration(d) with d not 0;
\* turn_away_mode_off submits exactly setCurrentOperatingMode({relaunch: off,
\* absence: off}) and then setAwayModeDuration(0).
C12_AwayModeSequences ==
    /\ Completed("turn_away_mode_on", None) =>
           /\ result = Ok
           /\ Len(submitted) = 2
           /\ submitted[1] = Command("setCurrentOperatingMode",
                                     <<[relaunch |-> "off", absence |-> "on"]>>)
           /\ submitted[2].cmd = "setAwayModeDuration"
           /\ Len(submitted[2].args) = 1
           /\ "num" \in DOMAIN submitted[2].args[1]
           /\ submitted[2].args[1].num # 0
    /\ Completed("turn_away_mode_off", None) =>
           /\ result = Ok
           /\ submitted = <<Command("setCurrentOperatingMode",
                                    <<[relaunch |-> "off", absence |-> "off"]>>),
                            Command("setAwayModeDuration", <<Num(0)>>)>>

\* C12 happens: away mode was turned on
C12_Witness ==
    /\ Completed("turn_away_mode_on", None)
    /\ Len(submitted) = 2
    /\ submitted[2] = Command("setAwayModeDuration", <<Num(2)>>)

\* the write operations of the two controllers
HotWaterWrites ==
    {"set_temperature", "set_operation_mode", "turn_away_mode_on", "turn_away_mode_off"}
VentilationWrites == {"set_fan_mode", "set_preset_mode"}
IsRefreshCommand(c) ==
    c.cmd \in {"refreshVentilationState", "refreshVentilationConfigurationMode"}

\* the last n commands submitted are refresh commands and no earlier one is
EndsWithRefresh(n) ==
    /\ Len(submitted) >= n
    /\ \A i \in DOMAIN submitted : IsRefreshCommand(submitted[i]) = (i > Len(submitted) - n)

\* C14 as stated: every write operation of either controller that completes
\* ends its commands with one or two refresh commands, after all others.
C14_EveryWriteEndsWithRefresh ==
    (call.op \in HotWaterWrites \cup VentilationWrites /\ result = Ok) =>
        EndsWithRefresh(1) \/ EndsWithRefresh(2)

\* C14 amended: every write operation of the ventilation controller that
\* completes ends its commands with the two refresh commands,
\* refreshVentilationState then refreshVentilationConfigurationMode, after all
\* others; the write operations of the hot-water controller submit no
\* refresh command.
C14_VentilationWritesEndWithRefresh ==
    /\ (call.op \in VentilationWrites /\ result = Ok) =>
           /\ EndsWithRefresh(2)
           /\ SubSeq(submitted, Len(submitted) - 1, Len(submitted)) =
                  <<Command("refreshVentilationState", <<>>),
                    Command("refreshVentilationConfigurationMode", <<>>)>>
    /\ call.op \in HotWaterWrites =>
           \A i \in DOMAIN submitted : ~IsRefreshCommand(submitted[i])

\* C14 happens: a preset was set and the four commands end with the refreshes
C14_Witness ==
    /\ call.op = "set_preset_mode"
    /\ call.arg = "prog"
    /\ result = Ok
    /\ Len(submitted) = 4
    /\ EndsWithRefresh(2)

\* C15: no operation of a controller changes the raw device state: until the
\* next refresh event every channel holds what it held when the operation
\* started.
C15_StoreReadOnlyToControllers ==
    (/\ ~applied
     /\ call.op \in {"current_operation", "fan_mode", "preset_mode"}
                    \cup HotWaterWrites \cup VentilationWrites) =>
        \A ch \in DOMAIN store : select_state(store, ch) = select_state(before, ch)

\* the run the last handler invoked makes from the store it started with
RunOfCall ==
    CASE call.op = "set_temperature" -> async_set_temperature(before, call.arg)
      [] call.op = "set_operation_mode" -> async_set_operation_mode(before, call.arg)
      [] call.op = "turn_away_mode_on" -> async_turn_away_mode_on(before)
      [] call.op = "turn_away_mode_off" -> async_turn_away_mode_off(before)
      [] call.op = "set_fan_mode" -> async_set_fan_mode(before, call.arg)
      [] call.op = "set_preset_mode" -> async_set_preset_mode(before, call.arg)

\* C16: when the k-th submission of a handler fails, the handler fails, the
\* commands submitted are exactly the first k of its sequence, each once (no
\* later command, no retry, no compensating command), and the controller
\* still takes reads and writes.
C16_FailedSubmissionStopsTheSequence ==
    (call.op \in HotWaterWrites \cup VentilationWrites /\ failed # 0) =>
        LET full == RunOfCall.steps
        IN  /\ result = ExecutionFailed
            /\ failed <= Len(full)
            /\ Len(submitted) = failed
            /\ \A i \in 1..failed : submitted[i] = full[i].cmd
            /\ \A i, j \in DOMAIN submitted : submitted[i] = submitted[j] => i = j
            /\ IsHotWater => ENABLED CurrentOperation /\ ENABLED TurnAwayModeOn
            /\ IsVentilation => ENABLED PresetMode /\ ENABLED SetPresetMode

\* C16 happens: the second submission of turn_away_mode_on failed
C16_Witness ==
    /\ call.op = "turn_away_mode_on"
    /\ failed = 2
    /\ result = ExecutionFailed
    /\ Len(submitted) = 2

\* the last step was the sensor's change notification to the controller
Notified == call.op = "_async_temp_sensor_changed"
\* the sensor state that notification, or the startup callback, delivered
Delivered == hass.states
Parsable(state) ==
    /\ state # NoneObj
    /\ state.state # STATE_UNKNOWN
    /\ ~Raises(float(state.state))

\* C13: a notification whose new state is absent or equal to the old one
\* leaves the cached temperature as it was and schedules no state update; one
\* whose text is "unknown" or is not a number leaves the cached temperature as
\* it was, ends without an exception and keeps the subscription; and a
\* notification with a new parsable text, whatever came before, makes the
\* cached temperature the number parsed.
C13_SensorNotification ==
    /\ (Notified /\ (Delivered = NoneObj \/ call.arg.same)) =>
           /\ _current_temperature = prior_temperature
           /\ scheduled = 0
    /\ (Notified /\ Delivered # NoneObj /\ ~Parsable(Delivered)) =>
           /\ _current_temperature = prior_temperature
           /\ result = Ok
           /\ hass.tracked
    /\ (Notified /\ Parsable(Delivered) /\ ~call.arg.same) =>
           /\ _current_temperature = float(Delivered.state).returns
           /\ scheduled = 1

\* C13 happens: a text that is not a number was notified to a controller that
\* holds 22.0, and it still holds 22.0
C13_Witness ==
    /\ Notified
    /\ ~call.arg.same
    /\ Delivered = State(<<"2", "-">>)
    /\ prior_temperature = Float(22, 0)
    /\ _current_temperature = Float(22, 0)

\* no entry of the registry has the base url followed by "#4" as unique id
NoSensorIn(entities) ==
    \A i \in DOMAIN entities : entities[i][2] # <<BaseUrl, "#4">>

\* C17: when the registry searched at activation has no entity with the base
\* url plus "#4", the controller keeps no entity id, and in every later state
\* there is no subscription, the registry was searched once, and the cached
\* temperature and what current_temperature returns are None.
C17_BindingAbsent ==
    /\ (call.op = "async_added_to_hass" /\ NoSensorIn(call.arg)) =>
           _temp_sensor_entity_id = None
    /\ (lookups > 0 /\ _temp_sensor_entity_id = None) =>
           /\ ~hass.tracked
           /\ lookups = 1
           /\ _current_temperature = NoneObj
           /\ call.op = "current_temperature" => value = NoneObj

\* C17 happens: the startup callback ran with no binding while the sensor's
\* state was 2.0
C17_Witness ==
    /\ lookups = 1
    /\ _temp_sensor_entity_id = None
    /\ call.op = "_async_startup"
    /\ hass.is_running
    /\ hass.states = State(<<"2">>)
    /\ _current_temperature = NoneObj

\* C18: a step that is neither the startup callback nor the sensor's
\* notification leaves the cached temperature as it was; when one of those
\* two changes it, the new value is the number parsed from the state
\* delivered; so the cached temperature is None or the parse of a sensor
\* text.
C18_TemperatureWrittenBySensorOnly ==
    /\ call.op \notin {"_async_startup", "_async_temp_sensor_changed"} =>
           _current_temperature = prior_temperature
    /\ _current_temperature # prior_temperature =>
           /\ Parsable(Delivered)
           /\ _current_temperature = float(Delivered.state).returns
    /\ \/ _current_temperature = NoneObj
       \/ \E t \in Texts : float(t) = Return(_current_temperature)

\* C18 happens: the controller holds 0.2 from the sensor, and a
\* set_preset_mode after it left that value in place
C18_Witness ==
    /\ call.op = "set_preset_mode"
    /\ result = Ok
    /\ hass.is_running
    /\ hass.states = State(<<".", "2">>)
    /\ _current_temperature = Float(2, 1)

\* C19: when set_preset_mode(p) completes for a preset p of Auto, Prog and
\* Manual, from any raw state, and the device has applied the submitted
\* commands to the configuration-mode and ventilation-mode channels, then
\* preset_mode() returns p.
C19_PresetRoundTrip ==
    (/\ call.op = "set_preset_mode"
     /\ call.arg \in {"auto", "prog", "manual"}
     /\ failed = 0
     /\ tasks = <<>>
     /\ applied) =>
        preset_mode(store) = Return(call.arg)

\* C19 happens: Manual was set on a device in Prog with configuration comfort
C19_Witness ==
    /\ call.op = "set_preset_mode"
    /\ call.arg = "manual"
    /\ failed = 0
    /\ applied
    /\ before["io:VentilationConfigurationModeState"] = "comfort"
    /\ before["io:VentilationModeState"].prog = "on"
    /\ store["io:VentilationConfigurationModeState"] = "standard"
    /\ store["io:VentilationModeState"].prog = "off"

\* C20: once the device has applied, in submission order, all commands of two
\* concurrent set_preset_mode invocations with different supported targets,
\* preset_mode() is the target of one of the two.
C20_ConcurrentPresetsEndInOneTarget ==
    (tasks # <<>> /\ applied) =>
        \E i \in DOMAIN tasks : preset_mode(store) = Return(tasks[i].target)

====
